---- MODULE Spec2Model ----
(***************************************************************************)
(* Restaurant Management API (src/main.py): the menu_items, orders and     *)
(* order_items tables and the request handlers that read and write them.   *)
(*                                                                         *)
(* Every handler but create_order issues one commit and is one action.     *)
(* create_order commits twice (line 178 and line 202) and queries the      *)
(* menu_items table once per requested line in between; handlers run on a  *)
(* thread pool, each with a session of its own (get_db), so the committed  *)
(* tables can change between those points.  create_order is therefore one  *)
(* action per commit / query.  One create_order call is in flight at a     *)
(* time (Workers); every other handler can run at any point of it.         *)
(*                                                                         *)
(* Money is a Float column in the source; the model uses integers (minor   *)
(* units).  created_at is not modelled.                                    *)
(*                                                                         *)
(* response is the outcome of the last completed handler: the status code  *)
(* and the ids of the rows the handler returned (or of the row it did not  *)
(* find).  The body a handler returns is those rows as the tables hold     *)
(* them when it returns: menu_items[id], OrderObject(id).                  *)
(***************************************************************************)
EXTENDS Integers, Sequences, FiniteSets, TLC

\* ---------------------------------------------------------------- bounds
MaxMenuId == 2      \* menu item ids are 1..MaxMenuId
MaxOrders == 2      \* at most this many rows in orders
MaxItems == 2       \* at most this many lines in one OrderCreate
MaxRows == 2        \* at most this many rows in order_items

\* SQL NULL in an integer column (rowids start at 1).
NULL == 0

Workers == {"w1"}

MenuIds == 1..MaxMenuId
OrderIds == 1..MaxOrders
Tables == {4}
Quantities == {2}

\* MenuItemCreate values reaching the handlers (validated by pydantic).
MenuItemCreate ==
    { [name |-> "soup", description |-> "hot", price |-> 5,
       category |-> "starter", is_available |-> TRUE],
      [name |-> "cake", description |-> "sweet", price |-> 3,
       category |-> "dessert", is_available |-> FALSE] }

OrderItemBase == [menu_item_id : MenuIds, quantity : Quantities]

SeqsUpTo(S, n) == UNION { [1..k -> S] : k \in 0..n }

OrderCreate == [table_number : Tables, items : SeqsUpTo(OrderItemBase, MaxItems)]

\* Query parameter `status` of PUT /orders/{id}/status: any string.
StatusArgs == {"pending", "preparing", "served", "paid", "cancelled"}

valid_statuses_wide == {"pending", "preparing", "served", "paid", "cancelled"}

valid_statuses == {"pending", "preparing", "served", "paid"}

InitialStatus_new == "new"

InitialStatus == "pending"

\* ----------------------------------------------------------------- state
VARIABLES
    menu_items,     \* table menu_items: id -> row
    orders,         \* table orders: id -> row
    order_items,    \* table order_items: row k has id k (rows are never deleted)
    pc,             \* create_order, per worker: "idle" | "loop" (after line 178)
    order,          \* create_order's argument `order` (an OrderCreate)
    db_order,       \* create_order's local db_order: the id of the header row
    total_amount,   \* create_order's local total_amount
    menu_item,      \* create_order's local menu_item: the MenuItem object last loaded
    session_new,    \* OrderItem objects added to the session and not yet flushed
    seen_prices,    \* history: prices each menu item had in menu_items during the call
    response        \* status code and row ids of the last completed handler

vars == <<menu_items, orders, order_items, pc, order, db_order, total_amount,
          menu_item, session_new, seen_prices, response>>

tables == <<menu_items, orders, order_items>>
locals == <<pc, order, db_order, total_amount, menu_item, session_new>>

NoItem == [id |-> NULL, price |-> 0]
NoOrder == [table_number |-> 0, items |-> <<>>]
NoPrices == [m \in MenuIds |-> {}]
NoResponse == [code |-> 0, ids |-> <<>>]

\* A returned value; HTTPException(status_code=400); HTTPException(status_code=404).
HTTP_200(ids) == [code |-> 200, ids |-> ids]
HTTP_400 == [code |-> 400, ids |-> <<>>]
HTTP_404(id) == [code |-> 404, ids |-> <<id>>]

\* --------------------------------------------------------------- helpers
Max(S) == CHOOSE x \in S : \A y \in S : y <= x

\* INTEGER PRIMARY KEY without AUTOINCREMENT: the next rowid is max(rowid) + 1.
NextId(ids) == IF ids = {} THEN 1 ELSE Max(ids) + 1

RECURSIVE Ascending(_)
Ascending(S) ==
    IF S = {} THEN <<>>
    ELSE LET lo == CHOOSE x \in S : \A y \in S : x <= y
         IN <<lo>> \o Ascending(S \ {lo})

\* .offset(skip).limit(limit).all()
OffsetLimit(rows, skip, limit) ==
    SubSeq(rows, skip + 1, IF Len(rows) < skip + limit THEN Len(rows) ELSE skip + limit)

\* Order.items: the order_items rows whose order_id is this order.
ItemsOf(order_id) == SelectSeq(order_items, LAMBDA l : l.order_id = order_id)

\* The Order object a handler returns, with its items relationship loaded.
OrderObject(id) ==
    [id |-> id,
     table_number |-> orders[id].table_number,
     status |-> orders[id].status,
     total_amount |-> orders[id].total_amount,
     items |-> ItemsOf(id)]

\* menu_item.price * item.quantity
LineAmount_sum(price, quantity) == price + quantity

LineAmount(price, quantity) == price * quantity

\* The history variable: every in-flight create_order sees menu item `id` at `price`.
Seen(id, price) ==
    [w \in Workers |->
        IF pc[w] = "loop"
        THEN [seen_prices[w] EXCEPT ![id] = @ \cup {price}]
        ELSE seen_prices[w]]

\* ------------------------------------------------------------------ Init
Init ==
    /\ menu_items = << >>
    /\ orders = << >>
    /\ order_items = << >>
    /\ pc = [w \in Workers |-> "idle"]
    /\ order = [w \in Workers |-> NoOrder]
    /\ db_order = [w \in Workers |-> NULL]
    /\ total_amount = [w \in Workers |-> 0]
    /\ menu_item = [w \in Workers |-> NoItem]
    /\ session_new = [w \in Workers |-> <<>>]
    /\ seen_prices = [w \in Workers |-> NoPrices]
    /\ response = NoResponse

\* ------------------------------------------------------------ menu items
\* The row of a MenuItem whose columns are set from item.dict().
Row_default_available(id, item) ==
    [id |-> id, name |-> item.name, description |-> item.description,
     price |-> item.price, category |-> item.category, is_available |-> TRUE]

Row(id, item) ==
    [id |-> id, name |-> item.name, description |-> item.description,
     price |-> item.price, category |-> item.category,
     is_available |-> item.is_available]

create_menu_item(item) ==
    LET id == NextId(DOMAIN menu_items)
    IN /\ id <= MaxMenuId
       /\ response' = HTTP_200(<<id>>)
       /\ menu_items' = (id :> Row(id, item)) @@ menu_items
       /\ seen_prices' = Seen(id, item.price)
       /\ UNCHANGED <<orders, order_items, locals>>

read_menu_items(skip, limit) ==
    /\ response' = HTTP_200(OffsetLimit(Ascending(DOMAIN menu_items), skip, limit))
    /\ UNCHANGED <<tables, locals, seen_prices>>

\* What read_menu_item returns or raises, as a function of the table.
MenuItemResponse(item_id) ==
    IF item_id \notin DOMAIN menu_items
    THEN [code |-> 404, detail |-> "Menu item not found"]
    ELSE [code |-> 200, body |-> menu_items[item_id]]

read_menu_item(item_id) ==
    /\ response' = IF MenuItemResponse(item_id).code = 404
                   THEN HTTP_404(item_id)
                   ELSE HTTP_200(<<item_id>>)
    /\ UNCHANGED <<tables, locals, seen_prices>>

update_menu_item(item_id, item) ==
    IF item_id \notin DOMAIN menu_items
    THEN /\ response' = HTTP_404(item_id)
         /\ UNCHANGED <<tables, locals, seen_prices>>
    ELSE /\ response' = HTTP_200(<<item_id>>)
         /\ menu_items' = [menu_items EXCEPT ![item_id] = Row(item_id, item)]
         /\ seen_prices' = Seen(item_id, item.price)
         /\ UNCHANGED <<orders, order_items, locals>>

\* MenuItem.order_items is a relationship() with the default cascade and
\* passive_deletes: deleting the MenuItem makes the unit of work load its
\* OrderItem children and set their menu_item_id to NULL before the DELETE.
Disassociate(item_id) ==
    [k \in DOMAIN order_items |->
        IF order_items[k].menu_item_id = item_id
        THEN [order_items[k] EXCEPT !.menu_item_id = NULL]
        ELSE order_items[k]]

delete_menu_item(item_id) ==
    IF item_id \notin DOMAIN menu_items
    THEN /\ response' = HTTP_404(item_id)
         /\ UNCHANGED <<tables, locals, seen_prices>>
    ELSE /\ response' = HTTP_200(<<>>)
         /\ menu_items' = [m \in DOMAIN menu_items \ {item_id} |-> menu_items[m]]
         /\ order_items' = Disassociate(item_id)
         /\ UNCHANGED <<orders, locals, seen_prices>>

\* ---------------------------------------------------------------- orders
\* create_order, lines 176-181: the header row is added and COMMITTED, then
\* refreshed; total_amount = 0.  total_amount of the row is the column default.
create_order_begin(w, req) ==
    LET id == NextId(DOMAIN orders)
    IN /\ pc[w] = "idle"
       /\ id <= MaxOrders
       /\ Len(order_items) + Len(req.items) <= MaxRows
       /\ orders' = (id :> [id |-> id, table_number |-> req.table_number,
                            status |-> InitialStatus, total_amount |-> 0]) @@ orders
       /\ pc' = [pc EXCEPT ![w] = "loop"]
       /\ order' = [order EXCEPT ![w] = req]
       /\ db_order' = [db_order EXCEPT ![w] = id]
       /\ total_amount' = [total_amount EXCEPT ![w] = 0]
       /\ menu_item' = [menu_item EXCEPT ![w] = NoItem]
       /\ session_new' = [session_new EXCEPT ![w] = <<>>]
       /\ seen_prices' = [seen_prices EXCEPT ![w] =
                            [m \in MenuIds |-> IF m \in DOMAIN menu_items
                                               THEN {menu_items[m].price} ELSE {}]]
       /\ UNCHANGED <<menu_items, order_items, response>>

\* The MenuItem object the query of lines 184-186 returns for a row that exists.
\* The session's identity map still holds the object the local menu_item refers
\* to; a row with that identity is not loaded again, so its price is the one
\* read by the previous iteration.
Loaded(w, id) ==
    IF menu_item[w].id = id
    THEN menu_item[w]
    ELSE [id |-> id, price |-> menu_items[id].price]

\* One iteration of the loop of line 183 whose menu item is found (lines 184-199).
\* autoflush is off: the OrderItem stays in the session until the commit.
create_order_item(w) ==
    /\ pc[w] = "loop"
    /\ Len(session_new[w]) < Len(order[w].items)
    /\ LET item == order[w].items[Len(session_new[w]) + 1]
       IN /\ item.menu_item_id \in DOMAIN menu_items
          /\ LET found == Loaded(w, item.menu_item_id)
                 order_item == [order_id |-> db_order[w],
                                menu_item_id |-> item.menu_item_id,
                                quantity |-> item.quantity,
                                unit_price |-> found.price]
             IN /\ menu_item' = [menu_item EXCEPT ![w] = found]
                /\ total_amount' = [total_amount EXCEPT ![w] =
                                        @ + LineAmount(found.price, item.quantity)]
                /\ session_new' = [session_new EXCEPT ![w] = Append(@, order_item)]
    /\ UNCHANGED <<tables, pc, order, db_order, seen_prices, response>>

\* One iteration whose menu item is not found (lines 187-190), then the handler
\* of lines 205-207: db.rollback() discards the pending OrderItems, and the
\* HTTPException is raised again.  The header row was committed at line 178.
create_order_not_found(w) ==
    /\ pc[w] = "loop"
    /\ Len(session_new[w]) < Len(order[w].items)
    /\ LET item == order[w].items[Len(session_new[w]) + 1]
       IN /\ item.menu_item_id \notin DOMAIN menu_items
          /\ response' = HTTP_404(item.menu_item_id)
    /\ pc' = [pc EXCEPT ![w] = "idle"]
    /\ order' = [order EXCEPT ![w] = NoOrder]
    /\ db_order' = [db_order EXCEPT ![w] = NULL]
    /\ total_amount' = [total_amount EXCEPT ![w] = 0]
    /\ menu_item' = [menu_item EXCEPT ![w] = NoItem]
    /\ session_new' = [session_new EXCEPT ![w] = <<>>]
    /\ seen_prices' = [seen_prices EXCEPT ![w] = NoPrices]
    /\ UNCHANGED tables

Flushed_reversed(w) ==
    [k \in 1..Len(session_new[w]) |->
        [id |-> Len(order_items) + k,
         order_id |-> session_new[w][Len(session_new[w]) + 1 - k].order_id,
         menu_item_id |-> session_new[w][Len(session_new[w]) + 1 - k].menu_item_id,
         quantity |-> session_new[w][Len(session_new[w]) + 1 - k].quantity,
         unit_price |-> session_new[w][Len(session_new[w]) + 1 - k].unit_price]]

\* The rows the flush of line 202 inserts: the pending OrderItems in the order
\* they were added, with the next rowids.  SQLite does not enforce the foreign
\* keys (no PRAGMA foreign_keys), so the rows are inserted as they are.
Flushed(w) ==
    [k \in 1..Len(session_new[w]) |->
        [id |-> Len(order_items) + k,
         order_id |-> session_new[w][k].order_id,
         menu_item_id |-> session_new[w][k].menu_item_id,
         quantity |-> session_new[w][k].quantity,
         unit_price |-> session_new[w][k].unit_price]]

\* After the loop (lines 201-203, 209): the total is set on the header, the
\* session is committed (UPDATE of total_amount alone, INSERT of the lines),
\* the header is refreshed and returned.
create_order_commit(w) ==
    /\ pc[w] = "loop"
    /\ Len(session_new[w]) = Len(order[w].items)
    /\ order_items' = order_items \o Flushed(w)
    /\ orders' = [orders EXCEPT ![db_order[w]].total_amount = total_amount[w]]
    /\ response' = HTTP_200(<<db_order[w]>>)
    /\ pc' = [pc EXCEPT ![w] = "idle"]
    /\ order' = [order EXCEPT ![w] = NoOrder]
    /\ db_order' = [db_order EXCEPT ![w] = NULL]
    /\ total_amount' = [total_amount EXCEPT ![w] = 0]
    /\ menu_item' = [menu_item EXCEPT ![w] = NoItem]
    /\ session_new' = [session_new EXCEPT ![w] = <<>>]
    /\ seen_prices' = [seen_prices EXCEPT ![w] = NoPrices]
    /\ UNCHANGED menu_items

read_orders(skip, limit) ==
    /\ response' = HTTP_200(OffsetLimit(Ascending(DOMAIN orders), skip, limit))
    /\ UNCHANGED <<tables, locals, seen_prices>>

\* What read_order returns or raises, as a function of the tables.
OrderResponse(order_id) ==
    IF order_id \notin DOMAIN orders
    THEN [code |-> 404, detail |-> "Order not found"]
    ELSE [code |-> 200, body |-> OrderObject(order_id)]

read_order(order_id) ==
    /\ response' = IF OrderResponse(order_id).code = 404
                   THEN HTTP_404(order_id)
                   ELSE HTTP_200(<<order_id>>)
    /\ UNCHANGED <<tables, locals, seen_prices>>

\* update_order_status with a transition graph: nothing leaves "paid".
update_order_status_graph(order_id, status) ==
    IF status \notin valid_statuses
       \/ (order_id \in DOMAIN orders /\ orders[order_id].status = "paid")
    THEN /\ response' = HTTP_400
         /\ UNCHANGED <<tables, locals, seen_prices>>
    ELSE IF order_id \notin DOMAIN orders
    THEN /\ response' = HTTP_404(order_id)
         /\ UNCHANGED <<tables, locals, seen_prices>>
    ELSE /\ response' = HTTP_200(<<>>)
         /\ orders' = [orders EXCEPT ![order_id].status = status]
         /\ UNCHANGED <<menu_items, order_items, locals, seen_prices>>

update_order_status(order_id, status) ==
    IF status \notin valid_statuses
    THEN /\ response' = HTTP_400
         /\ UNCHANGED <<tables, locals, seen_prices>>
    ELSE IF order_id \notin DOMAIN orders
    THEN /\ response' = HTTP_404(order_id)
         /\ UNCHANGED <<tables, locals, seen_prices>>
    ELSE /\ response' = HTTP_200(<<>>)
         /\ orders' = [orders EXCEPT ![order_id].status = status]
         /\ UNCHANGED <<menu_items, order_items, locals, seen_prices>>

\* ------------------------------------------------------------------ Next
Skips == {0, 1}
Limits == {100}

Next ==
    \/ \E item \in MenuItemCreate : create_menu_item(item)
    \/ \E skip \in Skips, limit \in Limits : read_menu_items(skip, limit)
    \/ \E item_id \in MenuIds : read_menu_item(item_id)
    \/ \E item_id \in MenuIds, item \in MenuItemCreate : update_menu_item(item_id, item)
    \/ \E item_id \in MenuIds : delete_menu_item(item_id)
    \/ \E w \in Workers, req \in OrderCreate : create_order_begin(w, req)
    \/ \E w \in Workers : create_order_item(w)
    \/ \E w \in Workers : create_order_not_found(w)
    \/ \E w \in Workers : create_order_commit(w)
    \/ \E skip \in Skips, limit \in Limits : read_orders(skip, limit)
    \/ \E order_id \in OrderIds : read_order(order_id)
    \/ \E order_id \in OrderIds, status \in StatusArgs : update_order_status(order_id, status)

Spec == Init /\ [][Next]_vars

\* ================================================================ claims
Statuses == {"pending", "preparing", "served", "paid"}

RECURSIVE SumOfLines(_)
SumOfLines(lines) ==
    IF lines = <<>> THEN 0
    ELSE Head(lines).quantity * Head(lines).unit_price + SumOfLines(Tail(lines))

\* The steps of create_order that end the call.
Fails(w) == pc[w] = "loop" /\ pc'[w] = "idle" /\ response'.code = 404
Succeeds(w) == pc[w] = "loop" /\ pc'[w] = "idle" /\ response'.code = 200

\* C1: when create_order fails with not-found, the orders and order_items
\* tables hold no header and no line of that call.
C1_FailedCreateLeavesNothing ==
    [][\A w \in Workers :
        Fails(w) =>
            /\ db_order[w] \notin DOMAIN orders'
            /\ \A k \in DOMAIN order_items' : order_items'[k].order_id # db_order[w]]_vars

\* C2: when create_order succeeds, the order's lines are the requested lines in
\* input order, each with a unit_price the menu item had in the catalog during
\* the call, and the header's total_amount is the sum of quantity * unit_price.
C2_SuccessfulCreate ==
    [][\A w \in Workers :
        Succeeds(w) =>
            LET lines == SelectSeq(order_items', LAMBDA l : l.order_id = db_order[w])
                req == order[w].items
            IN /\ Len(lines) = Len(req)
               /\ \A i \in 1..Len(req) :
                    /\ lines[i].menu_item_id = req[i].menu_item_id
                    /\ lines[i].quantity = req[i].quantity
                    /\ lines[i].unit_price \in seen_prices[w][req[i].menu_item_id]
               /\ orders'[db_order[w]].total_amount = SumOfLines(lines)
               /\ response'.ids = <<db_order[w]>>]_vars

C2_Witness ==
    \E id \in DOMAIN orders :
        /\ response = HTTP_200(<<id>>)
        /\ Len(ItemsOf(id)) = 2
        /\ ItemsOf(id)[1].unit_price # ItemsOf(id)[2].unit_price
        /\ orders[id].total_amount = 16

\* C3: a read_order or read_orders that returns an order never returns one
\* whose create_order call has not yet written its lines and total.
C3_ReadNeverSeesPartialOrder ==
    [][\A order_id \in OrderIds :
        (\/ read_order(order_id) /\ OrderResponse(order_id).code = 200
         \/ \E skip \in Skips, limit \in Limits :
                /\ read_orders(skip, limit)
                /\ \E k \in DOMAIN response'.ids : response'.ids[k] = order_id)
        => \A w \in Workers :
                ~(pc[w] = "loop" /\ db_order[w] = order_id /\ order[w].items # <<>>)]_vars

\* C4: every order's total_amount is the sum of quantity * unit_price over the
\* order_items rows of that order, in every state.
C4_TotalIsSumOfLines ==
    \A id \in DOMAIN orders : orders[id].total_amount = SumOfLines(ItemsOf(id))

C4_Witness ==
    \E a, b \in DOMAIN orders :
        /\ Len(ItemsOf(a)) = 2 /\ orders[a].total_amount = 16
        /\ Len(ItemsOf(b)) = 0 /\ orders[b].total_amount = 0
        /\ orders[a].status = "served"
        /\ \A w \in Workers : pc[w] = "idle"

\* C5: update_order_status with a status outside the four values is rejected
\* with 400, for an order that exists or not, and no order changes.
C5_InvalidStatusRejected ==
    [][\A order_id \in OrderIds, status \in StatusArgs \ Statuses :
        update_order_status(order_id, status) =>
            /\ response' = HTTP_400
            /\ orders' = orders]_vars

C5_Witness ==
    /\ response = HTTP_400
    /\ \E id \in DOMAIN orders : orders[id].status = "served"
    /\ Cardinality(DOMAIN orders) < MaxOrders

\* C6: a committed order line never changes, and menu item updates and
\* deletions and status updates leave every order's total_amount unchanged.
C6_LinesNeverChange ==
    [][/\ \A k \in DOMAIN order_items :
            /\ order_items'[k].unit_price = order_items[k].unit_price
            /\ order_items'[k].quantity = order_items[k].quantity
            /\ order_items'[k].menu_item_id = order_items[k].menu_item_id
       /\ (\/ \E item_id \in MenuIds, item \in MenuItemCreate : update_menu_item(item_id, item)
           \/ \E item_id \in MenuIds : delete_menu_item(item_id)
           \/ \E order_id \in OrderIds, status \in StatusArgs :
                update_order_status(order_id, status))
          => \A id \in DOMAIN orders : orders'[id].total_amount = orders[id].total_amount]_vars

C8_StatusAlwaysValid ==
    /\ [](\A id \in DOMAIN orders : orders[id].status \in Statuses)
    /\ [][\A id \in DOMAIN orders' \ DOMAIN orders : orders'[id].status = "pending"]_vars

C8_Witness ==
    \E a, b \in DOMAIN orders :
        /\ orders[a].status = "pending" /\ orders[a].total_amount = 0
        /\ orders[b].status = "preparing"
        /\ \E w \in Workers : pc[w] = "loop" /\ db_order[w] = a

\* C9: create_menu_item then read_menu_item of the returned id returns the
\* fields given; update_menu_item then read_menu_item returns the new fields;
\* delete_menu_item then read_menu_item is not-found; read, update and delete
\* of an id that is not in menu_items are not-found and leave it unchanged.
C9_MenuItemRoundTrip ==
    [][/\ \A item \in MenuItemCreate :
            create_menu_item(item) =>
                /\ response'.code = 200
                /\ \E id \in MenuIds \ DOMAIN menu_items :
                    /\ response'.ids = <<id>>
                    /\ MenuItemResponse(id)'.code = 200
                    /\ \A f \in DOMAIN item : MenuItemResponse(id)'.body[f] = item[f]
       /\ \A item_id \in DOMAIN menu_items, item \in MenuItemCreate :
            update_menu_item(item_id, item) =>
                /\ response'.code = 200
                /\ MenuItemResponse(item_id)'.code = 200
                /\ \A f \in DOMAIN item : MenuItemResponse(item_id)'.body[f] = item[f]
       /\ \A item_id \in DOMAIN menu_items :
            delete_menu_item(item_id) =>
                /\ response'.code = 200
                /\ MenuItemResponse(item_id)'.code = 404
       /\ \A item_id \in MenuIds \ DOMAIN menu_items :
            (\/ read_menu_item(item_id)
             \/ delete_menu_item(item_id)
             \/ \E item \in MenuItemCreate : update_menu_item(item_id, item)) =>
                /\ response' = HTTP_404(item_id)
                /\ menu_items' = menu_items]_vars

C9_Witness ==
    /\ response = HTTP_404(1)
    /\ DOMAIN menu_items = {2}
    /\ menu_items[2].name = "cake" /\ ~menu_items[2].is_available

\* C10: every line create_order commits references a menu item that is in
\* menu_items when the lines are committed.
C10_LinesReferenceCatalog ==
    [][\A w \in Workers :
        Succeeds(w) =>
            \A k \in DOMAIN order_items' \ DOMAIN order_items :
                order_items'[k].menu_item_id \in DOMAIN menu_items']_vars

====
